---- MODULE Spec2Model ----
(***************************************************************************)
(* Model of lib/portage/sync/modules/webrsync/webrsync.py: the WebRsync    *)
(* sync class (has_bin property and sync method) and the PyWebRsync        *)
(* placeholder.  One WebRsync object receives up to MaxAttempts sync()     *)
(* calls; each call is followed step by step through the method body.      *)
(***************************************************************************)
EXTENDS Integers, Sequences, FiniteSets, TLC

(* ---------------------------------------------------------------- bounds *)
\* number of sync() calls made on the WebRsync object
MaxAttempts == 2
\* the child's exit code ranges over 0..MaxExit
MaxExit == 2
\* number of PyWebRsync.sync() calls
MaxPyCalls == 2

(* ------------------------------------------------------------- constants *)
None == "None"
Absent == "absent"
EX_OK == 0

Binaries == {"emerge-webrsync", "emerge-delta-webrsync"}
BinPath == [b \in Binaries |->
              IF b = "emerge-webrsync" THEN "/usr/bin/emerge-webrsync"
              ELSE "/usr/bin/emerge-delta-webrsync"]
PlainPkg == ">=sys-apps/portage-2.3"
DeltaPkg == ">=app-portage/emerge-delta-webrsync-3.7.5"

IdentityVars == {"uid", "gid", "groups"}
GpgVars == {"PORTAGE_GPG_DIR", "PORTAGE_TEMP_GPG_DIR"}

(* ------------------------------------------------- option strings, lower *)
\* Option values are strings, modelled as sequences of characters so that
\* str.lower() is computed character by character.
LowerChar(c) ==
    CASE c = "T" -> "t" [] c = "R" -> "r" [] c = "U" -> "u" [] c = "E" -> "e"
      [] c = "Y" -> "y" [] c = "S" -> "s" [] c = "N" -> "n" [] c = "O" -> "o"
      [] OTHER -> c
lower_identity(s) == s
lower(s) == [i \in 1..Len(s) |-> LowerChar(s[i])]

TrueStrings == {<<"t", "r", "u", "e">>, <<"y", "e", "s">>}
FalseDefault == <<"f", "a", "l", "s", "e">>

\* dict.get(key, default)
get(d, k, default) == IF k \in DOMAIN d THEN d[k] ELSE default

\* module_specific_options.get(key, "false").lower() in ("true", "yes")
OptionEnabled(opts, key) == lower(get(opts, key, FalseDefault)) \in TrueStrings

OptionNames == {"sync-webrsync-delta", "sync-webrsync-verify-signature",
                "sync-webrsync-keep-snapshots"}
\* values a configuration file may give an option
OptionValues == {<<"t", "r", "u", "e">>, <<"Y", "E", "S">>, <<"n", "o">>}
\* an option mapping: each option is absent or has one of the values
OptionMaps == UNION {[D -> OptionValues] : D \in SUBSET OptionNames}

\* sync_openpgp_key_path: unset, a path of an existing file, a path of nothing
KeyFile == "/etc/keys/release.asc"
NoFile == "/etc/keys/missing.asc"
KeyPaths == {None, "", KeyFile, NoFile}
RepoLocation == "/var/db/repos/gentoo"
\* os.path.isfile
isfile(p) == p = KeyFile

(* ------------------------------------------------------------------ state *)
VARIABLES
    \* the environment
    installed,      \* per binary: "missing", "old" (below the minimum version), "ok"
    gemato,         \* TRUE iff the gemato import at module load succeeded
    keyrings,       \* keyring id -> "none" | "live" | "closed"
    \* the WebRsync object
    _bin_command, bin_command, bin_pkg,
    repo,           \* [location, module_specific_options, sync_openpgp_key_path]
    emerge_opts,    \* options["emerge_config"].opts, a set of flags
    spawn_kwargs,   \* [keys |-> identity entries present, env |-> GPG vars]
    \* the running sync() call
    pc, attempts, openpgp_env, webrsync_cmd, exitcode, pending,
    result,         \* <<>>, or <<exit code, success>> once returned
    raised,         \* None, or the exception that left sync()
    \* observation of the call
    log,            \* messages emitted, in order: [sink, msg]
    spawned,        \* spawn() calls of this attempt: [cmd, kwargs]
    closes,         \* openpgp_env.close() calls of this attempt
    allocs,         \* keyring environments allocated by this attempt
    lookups,        \* find_binary calls made by has_bin over the object's life
    kwargs0,        \* spawn_kwargs as it was when the attempt started
    importRes, refreshRes,  \* outcome of import / refresh in this attempt
    \* the PyWebRsync object
    pyCalls, pyRaised, pyResult

envVars == <<installed, gemato, keyrings>>
objVars == <<_bin_command, bin_command, bin_pkg, repo, emerge_opts, spawn_kwargs>>
callVars == <<pc, attempts, openpgp_env, webrsync_cmd, exitcode, pending, result, raised>>
obsVars == <<log, spawned, closes, allocs, lookups, kwargs0, importRes, refreshRes>>
pyVars == <<pyCalls, pyRaised, pyResult>>
vars == <<envVars, objVars, callVars, obsVars, pyVars>>

(* ------------------------------------------------------------ collaborators *)
\* portage.process.find_binary
find_binary(name) == IF installed[name] = "missing" THEN None ELSE BinPath[name]

\* SyncBase.has_bin: the binary was located and its package requirement is met
SyncBase_has_bin(cmd, path) == path # None /\ installed[cmd] = "ok"

NoEnv == [v \in GpgVars |-> Absent]
KeyringIds == 1..MaxAttempts
\* openpgp_env = None
NoKeyring == 0
\* openpgp_env.home of keyring k
home(k) == "/tmp/gpghome." \o ToString(k)
NoResult == <<>>
\* SyncBase.__init__ leaves the repo, the options and the spawn arguments unset
NoRepo == [location |-> None, module_specific_options |-> <<>>,
           sync_openpgp_key_path |-> None]
NoKwargs == [keys |-> {}, env |-> NoEnv]
NoCode == -1

(* ------------------------------------------------------------------- Init *)
\* SyncBase.__init__(self, "emerge-webrsync", ">=sys-apps/portage-2.3")
Init ==
    /\ installed \in [Binaries -> {"missing", "old", "ok"}]
    /\ gemato \in BOOLEAN
    /\ keyrings = [k \in KeyringIds |-> "none"]
    /\ _bin_command = "emerge-webrsync"
    /\ bin_command = find_binary("emerge-webrsync")
    /\ bin_pkg = PlainPkg
    /\ repo = NoRepo
    /\ emerge_opts = {}
    /\ spawn_kwargs = NoKwargs
    /\ pc = "idle" /\ attempts = 0 /\ openpgp_env = NoKeyring
    /\ webrsync_cmd = <<>> /\ exitcode = NoCode /\ pending = NoResult
    /\ result = NoResult /\ raised = None
    /\ log = <<>> /\ spawned = <<>> /\ closes = 0 /\ allocs = 0 /\ lookups = 0
    /\ kwargs0 = spawn_kwargs /\ importRes = None /\ refreshRes = None
    /\ pyCalls = 0 /\ pyRaised = None /\ pyResult = NoResult


(* ------------------------------------------------------------ WebRsync.sync *)
\* the spawn arguments a caller passes: identity entries and a clean env
CallerKeys == {{}, {"gid"}, IdentityVars}

Msg(sink, msg, arg) == [sink |-> sink, msg |-> msg, arg |-> arg]

\* sync(**kwargs) is entered and self._kwargs(kwargs) stores the caller's
\* options, repo and spawn arguments on the object.
Call(maps, paths, flagsets, keysets) ==
    /\ pc = "idle"
    /\ attempts < MaxAttempts
    /\ \E m \in maps, p \in paths, o \in flagsets, k \in keysets :
        /\ repo' = [location |-> RepoLocation, module_specific_options |-> m,
                    sync_openpgp_key_path |-> p]
        /\ emerge_opts' = o
        /\ spawn_kwargs' = [keys |-> k, env |-> NoEnv]
        /\ kwargs0' = [keys |-> k, env |-> NoEnv]
    /\ attempts' = attempts + 1
    /\ pc' = "has_bin"
    /\ UNCHANGED <<envVars, _bin_command, bin_command, bin_pkg, openpgp_env,
                   webrsync_cmd, exitcode, pending, result, raised, log, spawned,
                   closes, allocs, lookups, importRes, refreshRes, pyVars>>

SyncCall == Call(OptionMaps, KeyPaths, SUBSET {"--verbose", "--quiet"}, CallerKeys)

\* the same call with more spellings of the option values and the other
\* arguments fixed
WideOptionValues == {<<"t", "r", "u", "e">>, <<"T", "r", "u", "e">>,
                     <<"T", "R", "U", "E">>, <<"y", "e", "s">>, <<"Y", "e", "s">>,
                     <<"n", "o">>, <<"1">>, <<>>, <<"y", "e", "s", "s">>,
                     <<"t", "r", "u">>}
WideOptionMaps == UNION {[D -> WideOptionValues] : D \in SUBSET OptionNames}
SyncCallWide == Call(WideOptionMaps, {KeyFile}, {{}}, {IdentityVars})

\* the WebRsync.has_bin property switches to the delta binary when
\* sync-webrsync-delta is enabled and the switch was not made before
UseDelta_noGuard(cmd, opts) == OptionEnabled(opts, "sync-webrsync-delta")
UseDelta(cmd, opts) ==
    cmd # "emerge-delta-webrsync" /\ OptionEnabled(opts, "sync-webrsync-delta")

\* what one read of the has_bin property leaves in _bin_command, bin_command
\* and bin_pkg, and whether it called find_binary
has_bin(cmd, path, pkg, opts) ==
    IF UseDelta(cmd, opts)
    THEN [cmd |-> "emerge-delta-webrsync",
          path |-> find_binary("emerge-delta-webrsync"),
          pkg |-> DeltaPkg, lookup |-> TRUE]
    ELSE [cmd |-> cmd, path |-> path, pkg |-> pkg, lookup |-> FALSE]

\* "if not self.has_bin: return (1, False)": where sync() goes next
AfterHasBin_proceeds(ok) == "filter"
AfterHasBin(ok) == IF ok THEN "filter" ELSE "done"

HasBin ==
    /\ pc = "has_bin"
    /\ LET r == has_bin(_bin_command, bin_command, bin_pkg,
                        repo.module_specific_options)
       IN /\ _bin_command' = r.cmd
          /\ bin_command' = r.path
          /\ bin_pkg' = r.pkg
          /\ lookups' = IF r.lookup THEN lookups + 1 ELSE lookups
          /\ pc' = AfterHasBin(SyncBase_has_bin(r.cmd, r.path))
          /\ result' = IF pc' = "done" THEN <<1, FALSE>> ELSE result
    /\ UNCHANGED <<envVars, repo, emerge_opts, spawn_kwargs, attempts, openpgp_env,
                   webrsync_cmd, exitcode, pending, raised, log, spawned, closes,
                   allocs, kwargs0, importRes, refreshRes, pyVars>>

\* "for var in [uid, gid, groups]: self.spawn_kwargs.pop(var, None)"
Filtered_keepsGroups(keys) == keys \ {"uid", "gid"}
Filtered(keys) == keys \ IdentityVars

FilterKwargs ==
    /\ pc = "filter"
    /\ spawn_kwargs' = [spawn_kwargs EXCEPT !.keys = Filtered(@)]
    /\ openpgp_env' = NoKeyring
    /\ pc' = "verify"
    /\ UNCHANGED <<envVars, _bin_command, bin_command, bin_pkg, repo, emerge_opts,
                   attempts, webrsync_cmd, exitcode, pending, result, raised,
                   obsVars, pyVars>>

\* "not self.repo.sync_openpgp_key_path"
Unset(p) == p \in {None, ""}

\* the precondition checks of the verification, in the order of the code:
\* the message of the first unmet one, or "ok"
Precondition_noLibCheck(p, lib) ==
    IF Unset(p) THEN "sync-openpgp-key-path is not set"
    ELSE IF ~isfile(p) THEN "sync-openpgp-key-path file not found"
    ELSE "ok"
Precondition_libFirst(p, lib) ==
    IF ~lib THEN "requires gemato"
    ELSE IF Unset(p) THEN "sync-openpgp-key-path is not set"
    ELSE IF ~isfile(p) THEN "sync-openpgp-key-path file not found"
    ELSE "ok"
Precondition(p, lib) ==
    IF Unset(p) THEN "sync-openpgp-key-path is not set"
    ELSE IF ~isfile(p) THEN "sync-openpgp-key-path file not found"
    ELSE IF ~lib THEN "requires gemato"
    ELSE "ok"

VerifyEnabled == OptionEnabled(repo.module_specific_options,
                               "sync-webrsync-verify-signature")

\* the gate: "disabled" when the option is off, else the precondition outcome
Gate_ignoresOption(opts, p, lib) == Precondition(p, lib)
Gate(opts, p, lib) ==
    IF OptionEnabled(opts, "sync-webrsync-verify-signature")
    THEN Precondition(p, lib)
    ELSE "disabled"

\* the try block up to the keyring allocation
Validate ==
    /\ pc = "verify"
    /\ LET c == Gate(repo.module_specific_options, repo.sync_openpgp_key_path, gemato)
       IN CASE c = "disabled" -> pc' = "cmd" /\ UNCHANGED <<log, pending>>
            [] c = "ok" -> pc' = "get_env" /\ UNCHANGED <<log, pending>>
            [] OTHER ->
                 /\ log' = Append(log, Msg("stderr", c,
                                 IF c = "sync-openpgp-key-path file not found"
                                 THEN repo.sync_openpgp_key_path ELSE ""))
                 /\ pending' = <<1, FALSE>>
                 /\ pc' = "finally"
    /\ UNCHANGED <<envVars, objVars, attempts, openpgp_env, webrsync_cmd, exitcode,
                   result, raised, spawned, closes, allocs, lookups, kwargs0,
                   importRes, refreshRes, pyVars>>

\* the keyring id _get_openpgp_env hands out: the first one never used
FreshKeyring == CHOOSE k \in KeyringIds :
                    keyrings[k] = "none" /\ \A j \in 1..(k - 1) : keyrings[j] # "none"

\* "openpgp_env = self._get_openpgp_env(self.repo.sync_openpgp_key_path)"
GetOpenpgpEnv ==
    /\ pc = "get_env"
    /\ openpgp_env' = FreshKeyring
    /\ keyrings' = [keyrings EXCEPT ![FreshKeyring] = "live"]
    /\ allocs' = allocs + 1
    /\ pc' = "import"
    /\ UNCHANGED <<installed, gemato, objVars, attempts, webrsync_cmd, exitcode,
                   pending, result, raised, log, spawned, closes, lookups, kwargs0,
                   importRes, refreshRes, pyVars>>

\* "except (GematoException, asyncio.TimeoutError)": the exceptions handled
Handled == {"GematoException", "TimeoutError"}

\* what an exception raised inside the inner try does: the handled ones are
\* reported and turned into (1, False), the others leave sync()
Fail_continues(e) ==
    /\ IF e \in Handled
       THEN /\ log' = Append(log, Msg("stderr",
                        "Verification impossible due to keyring problem", e))
            /\ UNCHANGED <<pending, raised>>
            /\ pc' = "cmd"
       ELSE /\ raised' = e
            /\ UNCHANGED <<log, pending>>
            /\ pc' = "finally"
Fail(e) ==
    /\ IF e \in Handled
       THEN /\ log' = Append(log, Msg("stderr",
                        "Verification impossible due to keyring problem", e))
            /\ pending' = <<1, FALSE>>
            /\ UNCHANGED raised
       ELSE /\ raised' = e
            /\ UNCHANGED <<log, pending>>
    /\ pc' = "finally"

\* "with open(key_path, rb) as f: openpgp_env.import_key(f)": reading the
\* file can fail with OSError, the import with a GematoException
ImportKey ==
    /\ pc = "import"
    /\ \E r \in {"ok", "GematoException", "OSError"} :
        /\ importRes' = r
        /\ IF r = "ok"
           THEN pc' = "refresh" /\ UNCHANGED <<log, pending, raised>>
           ELSE Fail(r)
    /\ UNCHANGED <<envVars, objVars, attempts, openpgp_env, webrsync_cmd, exitcode,
                   result, spawned, closes, allocs, lookups, kwargs0, refreshRes,
                   pyVars>>

\* "self._refresh_keys(openpgp_env)"
RefreshKeys_injectsFirst ==
    /\ pc = "refresh"
    /\ spawn_kwargs' = [spawn_kwargs EXCEPT !.env =
                           [v \in GpgVars |-> home(openpgp_env)]]
    /\ \E r \in {"ok", "GematoException", "TimeoutError"} :
        /\ refreshRes' = r
        /\ IF r = "ok"
           THEN pc' = "set_env" /\ UNCHANGED <<log, pending, raised>>
           ELSE Fail(r)
    /\ UNCHANGED <<envVars, _bin_command, bin_command, bin_pkg, repo, emerge_opts,
                   attempts, openpgp_env, webrsync_cmd, exitcode,
                   result, spawned, closes, allocs, lookups, kwargs0, importRes,
                   pyVars>>
RefreshKeys ==
    /\ pc = "refresh"
    /\ \E r \in {"ok", "GematoException", "TimeoutError"} :
        /\ refreshRes' = r
        /\ IF r = "ok"
           THEN pc' = "set_env" /\ UNCHANGED <<log, pending, raised>>
           ELSE Fail(r)
    /\ UNCHANGED <<envVars, objVars, attempts, openpgp_env, webrsync_cmd, exitcode,
                   result, spawned, closes, allocs, lookups, kwargs0, importRes,
                   pyVars>>

\* the two assignments to spawn_kwargs["env"]
WithGpgDirs_onlyOne(env, dir) == [env EXCEPT !["PORTAGE_GPG_DIR"] = dir]
WithGpgDirs(env, dir) ==
    [env EXCEPT !["PORTAGE_GPG_DIR"] = dir, !["PORTAGE_TEMP_GPG_DIR"] = dir]

SetGpgDirs_closesKeyring ==
    /\ pc = "set_env"
    /\ spawn_kwargs' = [spawn_kwargs EXCEPT !.env = WithGpgDirs(@, home(openpgp_env))]
    /\ keyrings' = [keyrings EXCEPT ![openpgp_env] = "closed"]
    /\ pc' = "cmd"
    /\ UNCHANGED <<installed, gemato, _bin_command, bin_command, bin_pkg, repo,
                   emerge_opts, attempts, openpgp_env, webrsync_cmd, exitcode,
                   pending, result, raised, obsVars, pyVars>>
SetGpgDirs ==
    /\ pc = "set_env"
    /\ spawn_kwargs' = [spawn_kwargs EXCEPT !.env = WithGpgDirs(@, home(openpgp_env))]
    /\ pc' = "cmd"
    /\ UNCHANGED <<envVars, _bin_command, bin_command, bin_pkg, repo, emerge_opts,
                   attempts, openpgp_env, webrsync_cmd, exitcode, pending, result,
                   raised, obsVars, pyVars>>

\* the command vector: the binary, -v or else -q, then -k
Command_bothFlags(bin, verbose, quiet, keep) ==
    <<bin>> \o (IF verbose THEN <<"-v">> ELSE <<>>)
            \o (IF quiet THEN <<"-q">> ELSE <<>>)
            \o (IF keep THEN <<"-k">> ELSE <<>>)
Command(bin, verbose, quiet, keep) ==
    <<bin>> \o (IF verbose THEN <<"-v">> ELSE IF quiet THEN <<"-q">> ELSE <<>>)
            \o (IF keep THEN <<"-k">> ELSE <<>>)

BuildCommand ==
    /\ pc = "cmd"
    /\ webrsync_cmd' = Command(bin_command, "--verbose" \in emerge_opts,
                               "--quiet" \in emerge_opts,
                               OptionEnabled(repo.module_specific_options,
                                             "sync-webrsync-keep-snapshots"))
    /\ pc' = "spawn"
    /\ UNCHANGED <<envVars, objVars, attempts, openpgp_env, exitcode, pending,
                   result, raised, obsVars, pyVars>>

\* "portage.process.spawn(webrsync_cmd, **self.spawn_kwargs)": the child starts
Spawn ==
    /\ pc = "spawn"
    /\ spawned' = Append(spawned, [cmd |-> webrsync_cmd, kwargs |-> spawn_kwargs])
    /\ pc' = "child"
    /\ UNCHANGED <<envVars, objVars, attempts, openpgp_env, webrsync_cmd, exitcode,
                   pending, result, raised, log, closes, allocs, lookups, kwargs0,
                   importRes, refreshRes, pyVars>>

\* the child exits and spawn() returns its exit code
ChildExit ==
    /\ pc = "child"
    /\ \E c \in 0..MaxExit : exitcode' = c
    /\ pc' = "interpret"
    /\ UNCHANGED <<envVars, objVars, attempts, openpgp_env, webrsync_cmd, pending,
                   result, raised, obsVars, pyVars>>

\* the result pair for an exit code
ResultOf_flattened(c) == <<IF c = EX_OK THEN c ELSE 1, c = EX_OK>>
ResultOf(c) == <<c, c = EX_OK>>

\* "if exitcode != os.EX_OK: ... return (exitcode, False)  return (exitcode, True)"
Interpret ==
    /\ pc = "interpret"
    /\ IF exitcode # EX_OK
       THEN log' = log \o <<Msg("logger", "emerge-webrsync error in", repo.location),
                            Msg("stderr", "emerge-webrsync error in", repo.location)>>
       ELSE UNCHANGED log
    /\ pending' = ResultOf(exitcode)
    /\ pc' = "finally"
    /\ UNCHANGED <<envVars, objVars, attempts, openpgp_env, webrsync_cmd, exitcode,
                   result, raised, spawned, closes, allocs, lookups, kwargs0,
                   importRes, refreshRes, pyVars>>

\* "if openpgp_env is not None"
MustClose_unlessRaised(env) == env # NoKeyring /\ raised = None
MustClose(env) == env # NoKeyring

\* the finally clause, then the return (or the exception) reaches the caller
Finally ==
    /\ pc = "finally"
    /\ IF MustClose(openpgp_env)
       THEN /\ keyrings' = [keyrings EXCEPT ![openpgp_env] = "closed"]
            /\ closes' = closes + 1
       ELSE UNCHANGED <<keyrings, closes>>
    /\ result' = IF raised = None THEN pending ELSE NoResult
    /\ pc' = "done"
    /\ UNCHANGED <<installed, gemato, objVars, attempts, openpgp_env, webrsync_cmd,
                   exitcode, pending, raised, log, spawned, allocs, lookups, kwargs0,
                   importRes, refreshRes, pyVars>>

\* the caller has the outcome; the frame of the call is gone and the next
\* call brings its own kwargs
Return ==
    /\ pc = "done"
    /\ pc' = "idle"
    /\ repo' = NoRepo /\ emerge_opts' = {} /\ spawn_kwargs' = NoKwargs
    /\ kwargs0' = NoKwargs
    /\ openpgp_env' = NoKeyring /\ webrsync_cmd' = <<>> /\ exitcode' = NoCode
    /\ pending' = NoResult /\ result' = NoResult /\ raised' = None
    /\ log' = <<>> /\ spawned' = <<>> /\ closes' = 0 /\ allocs' = 0
    /\ importRes' = None /\ refreshRes' = None
    /\ UNCHANGED <<envVars, _bin_command, bin_command, bin_pkg, attempts, lookups,
                   pyVars>>

(* --------------------------------------------------------- PyWebRsync.sync *)
\* "raise NotImplementedError(...)" whatever the kwargs are
PySync_returnsFailure ==
    /\ pc = "idle"
    /\ pyCalls < MaxPyCalls
    /\ \E m \in OptionMaps :
        /\ pyCalls' = pyCalls + 1
        /\ pyRaised' = None
        /\ pyResult' = <<1, FALSE>>
    /\ UNCHANGED <<envVars, objVars, callVars, obsVars>>
PySync ==
    /\ pc = "idle"
    /\ pyCalls < MaxPyCalls
    /\ \E m \in OptionMaps :
        /\ pyCalls' = pyCalls + 1
        /\ pyRaised' = "NotImplementedError"
        /\ pyResult' = NoResult
    /\ UNCHANGED <<envVars, objVars, callVars, obsVars>>

(* ------------------------------------------------------------- properties *)
Failures == {"GematoException", "TimeoutError", "OSError"}
InCall == pc # "idle"
Returned == pc = "done"
\* the messages of the attempt that went to a sink about the repository
RepoErrors(sink) == {i \in DOMAIN log : /\ log[i].sink = sink
                                       /\ log[i].msg = "emerge-webrsync error in"
                                       /\ log[i].arg = repo.location}
\* the flags of a command vector, i.e. all but its first element
Flags(cmd) == {cmd[i] : i \in 2..Len(cmd)}

\* C1: in every sync attempt openpgp_env.close() is called exactly once if a
\* keyring environment was allocated and never if none was, on every exit
\* path, the exception leaving sync() after the allocation included; no close
\* happens before the exit.
C1_ReleaseExactlyOnce ==
    /\ allocs \in {0, 1}
    /\ closes <= allocs
    /\ Returned => closes = allocs
    /\ Returned /\ allocs = 1 => keyrings[openpgp_env] = "closed"
    /\ \A k \in KeyringIds : keyrings[k] = "live" => InCall /\ ~Returned /\ openpgp_env = k

C1_Witness ==
    Returned /\ allocs = 1 /\ closes = 1 /\ raised = "OSError"

\* C2: with verification enabled and one of the three preconditions unmet
\* (key path unset, key path not an existing file, library absent) sync()
\* returns exactly (1, False), allocates no keyring and spawns no process.
C2_PreconditionUnmet ==
    LET p == repo.sync_openpgp_key_path
    IN InCall /\ VerifyEnabled /\ (Unset(p) \/ ~isfile(p) \/ ~gemato)
        => /\ allocs = 0 /\ openpgp_env = NoKeyring
           /\ spawned = <<>>
           /\ pc \notin {"get_env", "import", "refresh", "set_env", "cmd", "spawn", "child"}
           /\ Returned => result = <<1, FALSE>> /\ raised = None

C2_Witness ==
    /\ Returned /\ VerifyEnabled /\ ~gemato
    /\ isfile(repo.sync_openpgp_key_path)
    /\ Len(log) = 1 /\ log[1].msg = "requires gemato"
    /\ result = <<1, FALSE>>

\* C3: any failure of the key import (malformed key, I/O failure reading the
\* key file) or of the key refresh (library failure, timeout) makes sync()
\* return (1, False) without spawning the process.
C3_KeyringFailureAborts ==
    Returned /\ (importRes \in Failures \/ refreshRes \in Failures)
        => result = <<1, FALSE>> /\ raised = None /\ spawned = <<>>

\* C4: with verification enabled, an existing key file and a successful import
\* and refresh, the process is spawned with PORTAGE_GPG_DIR and
\* PORTAGE_TEMP_GPG_DIR both set to the keyring's home, and the keyring is
\* closed once sync() has returned.
C4_GpgDirsAndRelease ==
    importRes = "ok" /\ refreshRes = "ok"
        => /\ \A i \in DOMAIN spawned : \A v \in GpgVars :
                 spawned[i].kwargs.env[v] = home(openpgp_env)
           /\ pc \in {"child", "interpret", "finally", "done"} => Len(spawned) = 1
           /\ Returned => keyrings[openpgp_env] = "closed"

C4_Witness ==
    /\ Returned /\ VerifyEnabled /\ importRes = "ok" /\ refreshRes = "ok"
    /\ Len(spawned) = 1
    /\ spawned[1].kwargs.env["PORTAGE_GPG_DIR"] = home(openpgp_env)
    /\ keyrings[openpgp_env] = "closed"

\* C5: with sync-webrsync-verify-signature disabled no keyring environment is
\* created during the attempt and the GPG variables of the spawn environment
\* stay as the caller passed them, also in the environment the process gets.
C5_DisabledNoKeyring ==
    InCall /\ ~VerifyEnabled
        => /\ allocs = 0 /\ openpgp_env = NoKeyring
           /\ \A k \in KeyringIds : keyrings[k] # "live"
           /\ spawn_kwargs.env = kwargs0.env
           /\ \A i \in DOMAIN spawned : spawned[i].kwargs.env = kwargs0.env

C5_Witness ==
    /\ Returned /\ ~VerifyEnabled /\ Len(spawned) = 1
    /\ "sync-webrsync-verify-signature" \in DOMAIN repo.module_specific_options
    /\ spawned[1].kwargs.env = NoEnv

\* C6: once the process was spawned and has exited, sync() returns (OK, True)
\* for the OK exit code, with no error message, and (c, False) for any other
\* code c, with the error message naming the repository location passed once
\* to the logger and written once to stderr.
C6_ExitCodeResult ==
    Returned /\ spawned # <<>>
        => /\ raised = None
           /\ result[1] = exitcode
           /\ exitcode = EX_OK => /\ result = <<EX_OK, TRUE>>
                                  /\ RepoErrors("logger") = {} /\ RepoErrors("stderr") = {}
           /\ exitcode # EX_OK => /\ result = <<exitcode, FALSE>>
                                  /\ Cardinality(RepoErrors("logger")) = 1
                                  /\ Cardinality(RepoErrors("stderr")) = 1

C6_Witness ==
    Returned /\ spawned # <<>> /\ exitcode = 2 /\ result = <<2, FALSE>>

\* C7: when has_bin is false sync() returns (1, False) at once: the spawn
\* arguments are as the caller passed them, nothing was reported by a
\* verification check, no keyring was allocated and no process was spawned.
C7_NoBinary ==
    pc \notin {"idle", "has_bin"} /\ ~SyncBase_has_bin(_bin_command, bin_command)
        => /\ Returned /\ result = <<1, FALSE>> /\ raised = None
           /\ spawn_kwargs = kwargs0
           /\ log = <<>> /\ importRes = None /\ refreshRes = None
           /\ allocs = 0 /\ openpgp_env = NoKeyring
           /\ spawned = <<>> /\ webrsync_cmd = <<>>

C7_Witness ==
    /\ Returned /\ ~SyncBase_has_bin(_bin_command, bin_command)
    /\ kwargs0.keys = IdentityVars /\ VerifyEnabled
    /\ result = <<1, FALSE>>

\* C8: the command vector is the binary path, then -v if verbose is requested
\* or else -q if quiet is requested, then -k iff keep-snapshots is enabled;
\* -v and -q never both appear and nothing else does.
C8_CommandVector ==
    LET v == "--verbose" \in emerge_opts
        q == "--quiet" \in emerge_opts
        k == OptionEnabled(repo.module_specific_options, "sync-webrsync-keep-snapshots")
        n == Len(webrsync_cmd)
    IN webrsync_cmd # <<>>
        => /\ webrsync_cmd[1] = bin_command
           /\ Flags(webrsync_cmd) \subseteq {"-v", "-q", "-k"}
           /\ "-v" \in Flags(webrsync_cmd) <=> v
           /\ "-q" \in Flags(webrsync_cmd) <=> ~v /\ q
           /\ "-k" \in Flags(webrsync_cmd) <=> k
           /\ n = 1 + (IF v \/ q THEN 1 ELSE 0) + (IF k THEN 1 ELSE 0)
           /\ k => webrsync_cmd[n] = "-k"
           /\ \A i \in DOMAIN spawned : spawned[i].cmd = webrsync_cmd

C8_Witness ==
    /\ {"--verbose", "--quiet"} \subseteq emerge_opts
    /\ webrsync_cmd = <<bin_command, "-v", "-k">>
    /\ Len(spawned) = 1

\* C9: the spawn arguments every spawned process gets hold none of uid, gid
\* and groups, whatever the options are and whatever the caller passed.
C9_IdentityStripped ==
    \A i \in DOMAIN spawned : spawned[i].kwargs.keys \cap IdentityVars = {}

C9_Witness ==
    Len(spawned) = 1 /\ kwargs0.keys = IdentityVars /\ VerifyEnabled

\* C10: every PyWebRsync.sync() call raises NotImplementedError, returns no
\* result pair, spawns no process and allocates no keyring.
C10_PyNotImplemented ==
    [][pyCalls' # pyCalls
        => /\ pyRaised' = "NotImplementedError"
           /\ pyResult' = NoResult
           /\ keyrings' = keyrings /\ allocs' = allocs /\ spawned' = spawned]_vars

C10_Witness ==
    pyCalls = MaxPyCalls /\ pyRaised = "NotImplementedError" /\ attempts > 0

\* the messages the three precondition checks and the keyring handler report
GateMessages == {"sync-openpgp-key-path is not set",
                 "sync-openpgp-key-path file not found", "requires gemato",
                 "Verification impossible due to keyring problem"}
Reported == {log[i].msg : i \in DOMAIN log}

\* C11: a process spawned in an attempt with verification enabled is spawned
\* after the gate succeeded: the key path is set and an existing file, the
\* library is available, the import and the refresh succeeded and both GPG
\* variables were in the environment at the spawn; the gate reported no
\* failure and no (1, False) was pending.
C11_SpawnAfterGate ==
    LET p == repo.sync_openpgp_key_path
    IN VerifyEnabled /\ (spawned # <<>> \/ pc = "spawn")
        => /\ ~Unset(p) /\ isfile(p) /\ gemato
           /\ importRes = "ok" /\ refreshRes = "ok"
           /\ openpgp_env # NoKeyring
           /\ \A v \in GpgVars : spawn_kwargs.env[v] = home(openpgp_env)
           /\ \A i \in DOMAIN spawned : \A v \in GpgVars :
                 spawned[i].kwargs.env[v] = home(openpgp_env)
           /\ Reported \cap GateMessages = {}
           /\ pc \in {"spawn", "child"} => pending = NoResult /\ raised = None

C11_Witness ==
    /\ pc = "child" /\ VerifyEnabled /\ Len(spawned) = 1
    /\ importRes = "ok" /\ refreshRes = "ok"
    /\ keyrings[openpgp_env] = "live"

\* C12: with verification enabled the checks run in the order key path set,
\* key path an existing file, library available: when one of them is unmet
\* exactly one message is reported, the one of the earliest unmet check.
C12_FirstUnmetReported ==
    LET p == repo.sync_openpgp_key_path
        first == IF Unset(p) THEN "sync-openpgp-key-path is not set"
                 ELSE IF ~isfile(p) THEN "sync-openpgp-key-path file not found"
                 ELSE "requires gemato"
    IN /\ VerifyEnabled /\ (Unset(p) \/ ~isfile(p) \/ ~gemato)
          /\ pc \in {"finally", "done"}
          /\ SyncBase_has_bin(_bin_command, bin_command)
            => /\ Len(log) = 1
               /\ log[1].sink = "stderr" /\ log[1].msg = first
               /\ pending = <<1, FALSE>>
       /\ VerifyEnabled /\ (Unset(p) \/ ~isfile(p) \/ ~gemato)
          /\ pc \notin {"finally", "done"}
            => log = <<>>

C12_Witness ==
    /\ Returned /\ VerifyEnabled
    /\ Unset(repo.sync_openpgp_key_path) /\ ~gemato
    /\ Len(log) = 1 /\ log[1].msg = "sync-openpgp-key-path is not set"

\* C13: the attempt adds PORTAGE_GPG_DIR and PORTAGE_TEMP_GPG_DIR to the spawn
\* environment only after both the import and the refresh succeeded, and
\* both at once: after a failed import or refresh the environment is as the
\* caller passed it, and never holds only one of the two.
C13_InjectAfterBoth ==
    /\ spawn_kwargs.env # kwargs0.env
         => /\ importRes = "ok" /\ refreshRes = "ok"
            /\ \A v \in GpgVars : spawn_kwargs.env[v] = home(openpgp_env)
    /\ importRes \in Failures \/ refreshRes \in Failures
         => spawn_kwargs.env = kwargs0.env /\ spawned = <<>>
    /\ spawn_kwargs.env["PORTAGE_GPG_DIR"] = spawn_kwargs.env["PORTAGE_TEMP_GPG_DIR"]

C13_Witness ==
    /\ Returned /\ importRes = "ok" /\ refreshRes = "TimeoutError"
    /\ spawn_kwargs.env = NoEnv /\ closes = 1

DeltaEnabled == OptionEnabled(repo.module_specific_options, "sync-webrsync-delta")

\* C14: in every attempt that spawns the process the command starts with the
\* emerge-delta-webrsync binary, selected with its own package requirement,
\* iff sync-webrsync-delta is enabled in that attempt, and with the
\* emerge-webrsync binary otherwise, whatever the earlier attempts on the
\* object were.
C14_BinaryFollowsOption ==
    \A i \in DOMAIN spawned :
        IF DeltaEnabled
        THEN spawned[i].cmd[1] = BinPath["emerge-delta-webrsync"] /\ bin_pkg = DeltaPkg
        ELSE spawned[i].cmd[1] = BinPath["emerge-webrsync"] /\ bin_pkg = PlainPkg

\* C15: while the child runs with GPG variables this attempt set, the keyring
\* they name is live; close() is called only after the exit code was
\* interpreted, on the way out of sync().
C15_ReleaseAfterChild ==
    /\ pc \in {"spawn", "child", "interpret"} /\ spawn_kwargs.env # kwargs0.env
         => /\ openpgp_env # NoKeyring
            /\ keyrings[openpgp_env] = "live"
            /\ \A v \in GpgVars : spawn_kwargs.env[v] = home(openpgp_env)
            /\ \A i \in DOMAIN spawned : spawned[i].kwargs.env = spawn_kwargs.env
    /\ closes > 0 => Returned
    /\ Returned /\ spawned # <<>> => exitcode # NoCode /\ result = pending

C15_Witness ==
    /\ pc = "child" /\ Len(spawned) = 1
    /\ spawned[1].kwargs.env["PORTAGE_GPG_DIR"] = home(openpgp_env)
    /\ keyrings[openpgp_env] = "live"

\* C17: a second read of has_bin with the options of the attempt changes none
\* of _bin_command, bin_command and bin_pkg and calls find_binary no more,
\* and has_bin calls find_binary at most once in the life of the object.
C17_HasBinIdempotent ==
    /\ lookups <= 1
    /\ pc \notin {"idle", "has_bin"}
         => LET r == has_bin(_bin_command, bin_command, bin_pkg,
                             repo.module_specific_options)
            IN /\ r.cmd = _bin_command /\ r.path = bin_command /\ r.pkg = bin_pkg
               /\ ~r.lookup
    /\ _bin_command = "emerge-webrsync" => lookups = 0 /\ bin_pkg = PlainPkg
    /\ _bin_command = "emerge-delta-webrsync" => lookups = 1 /\ bin_pkg = DeltaPkg

C17_Witness ==
    /\ attempts = MaxAttempts /\ pc = "filter" /\ DeltaEnabled
    /\ _bin_command = "emerge-delta-webrsync" /\ lookups = 1
    /\ spawned = <<>> /\ log = <<>> /\ result = NoResult

\* the upper-case form of the letters of "true" and "yes"
UpperOf == [c \in {"t", "r", "u", "e", "y", "s"} |->
              CASE c = "t" -> "T" [] c = "r" -> "R" [] c = "u" -> "U"
                [] c = "e" -> "E" [] c = "y" -> "Y" [] c = "s" -> "S"]
\* s spells the lower-case word w in some mix of cases
Spells(s, w) ==
    Len(s) = Len(w) /\ \A i \in 1..Len(w) : s[i] = w[i] \/ s[i] = UpperOf[w[i]]
\* the option is present and spells "true" or "yes"
IsTrueOrYes(key) ==
    LET opts == repo.module_specific_options
    IN key \in DOMAIN opts /\ (\/ Spells(opts[key], <<"t", "r", "u", "e">>)
                                \/ Spells(opts[key], <<"y", "e", "s">>))
PastHasBin == pc \notin {"idle", "has_bin"}

\* C16: each of sync-webrsync-delta, sync-webrsync-verify-signature and
\* sync-webrsync-keep-snapshots takes effect iff its value spells "true" or
\* "yes" in any mix of cases; any other value and an absent key leave it off.
\* The effects are the switch to the delta binary (on a fresh object), the
\* entry into the verification gate, and the -k flag.
C16_OptionParsing ==
    /\ PastHasBin /\ IsTrueOrYes("sync-webrsync-delta")
         => _bin_command = "emerge-delta-webrsync"
    /\ PastHasBin /\ attempts = 1 /\ ~IsTrueOrYes("sync-webrsync-delta")
         => _bin_command = "emerge-webrsync"
    /\ pc \notin {"idle", "has_bin", "filter", "verify"}
          /\ SyncBase_has_bin(_bin_command, bin_command)
         => (IsTrueOrYes("sync-webrsync-verify-signature")
               <=> pc = "get_env" \/ allocs > 0 \/ Reported \cap GateMessages # {})
    /\ webrsync_cmd # <<>>
         => (IsTrueOrYes("sync-webrsync-keep-snapshots")
               <=> "-k" \in Flags(webrsync_cmd))

C16_Witness ==
    LET opts == repo.module_specific_options
    IN /\ pc = "child" /\ DOMAIN opts = OptionNames
       /\ opts["sync-webrsync-delta"] = <<"T", "r", "u", "e">>
       /\ opts["sync-webrsync-verify-signature"] = <<"Y", "e", "s">>
       /\ opts["sync-webrsync-keep-snapshots"] = <<"y", "e", "s", "s">>
       /\ webrsync_cmd = <<BinPath["emerge-delta-webrsync"]>>
       /\ allocs = 1

Next ==
    \/ SyncCall \/ HasBin \/ FilterKwargs \/ Validate \/ GetOpenpgpEnv
    \/ ImportKey \/ RefreshKeys \/ SetGpgDirs \/ BuildCommand \/ Spawn
    \/ ChildExit \/ Interpret \/ Finally \/ Return \/ PySync

Spec == Init /\ [][Next]_vars

\* the sync calls with the wide option values, both binaries installed
InitWide == Init /\ \A b \in Binaries : installed[b] = "ok"

NextWide ==
    \/ SyncCallWide \/ HasBin \/ FilterKwargs \/ Validate \/ GetOpenpgpEnv
    \/ ImportKey \/ RefreshKeys \/ SetGpgDirs \/ BuildCommand \/ Spawn
    \/ ChildExit \/ Interpret \/ Finally \/ Return \/ PySync

SpecWide == InitWide /\ [][NextWide]_vars

====
